---- MODULE Spec2Model ----
(***************************************************************************)
(* A model of src/main.py, the Fast Cash Tournament RPG bot: the player    *)
(* store, chests and loot, equipment, the marketplace and the tournament   *)
(* table.  One action per command handler; each action is the whole        *)
(* handler, its ensure_player call and its save_json calls included.  The  *)
(* text a handler replies with is an operator of the state it ran in and   *)
(* of its arguments (<handler>_reply); the handler's branches are guarded  *)
(* by it, in the order of the code's early returns.                        *)
(***************************************************************************)
EXTENDS Integers, Sequences, FiniteSets, TLC

VARIABLES
    players,     \* main.py:51  dict: str(user id) -> profile
    market,      \* main.py:52  list of listings {seller_id, item, price}
    tournament,  \* main.py:53  {"players": [user id, ...]}
    disk,        \* the three JSON documents save_json last wrote
    trades,      \* purchases made so far (bounds the model, see MaxTrades)
    issued       \* history: <<player key, item id, n>> for the n-th id /open_chest gave the player

vars == <<players, market, tournament, disk, trades, issued>>

----------------------------------------------------------------------------
(* Bounds of the model.                                                    *)

\* users that issue commands in Spec and SpecGame (ids 1..NumUsers)
NumUsers == 2
\* users that issue commands in SpecTable (ids 1..NumTableUsers)
NumTableUsers == 3
\* users that issue commands in SpecFullTable (ids 1..NumFullTableUsers)
NumFullTableUsers == 6
\* /winner is not taken when it would leave more unopened chests than this
MaxChests == 4
\* the same, in SpecFullTable
MaxFullTableChests == 2
\* /open_chest is not taken once this many items exist (inventories + market)
MaxItems == 2
\* /buy is not taken once this many purchases were made
MaxTrades == 1

\* the token bonuses roll_chest draws in the model, out of 10..30
TokenRolls == {10, 30}
\* the prices /sell is given in the model
Prices == {-45, 0, 30}

----------------------------------------------------------------------------
(* Configuration and data.                                                 *)

ADMIN_ID == 1

None == 0

SLOTS == <<"head", "body", "weapon", "legs", "trinket">>

SlotSet == {SLOTS[i] : i \in 1..Len(SLOTS)}

ITEM_POOL ==
    [Common   |-> << <<"Rusty Visor", "head", 1>>,
                     <<"Worn Jacket", "body", 1>>,
                     <<"Cracked Blade", "weapon", 1>>,
                     <<"Street Boots", "legs", 1>>,
                     <<"Lucky Token", "trinket", 1>> >>,
     Uncommon |-> << <<"Neon Visor", "head", 3>>,
                     <<"Reinforced Coat", "body", 3>>,
                     <<"Pulse Saber", "weapon", 3>>,
                     <<"Sprint Greaves", "legs", 3>>,
                     <<"Circuit Charm", "trinket", 3>> >>,
     Rare     |-> << <<"Ghost Crown", "head", 6>>,
                     <<"Aegis Harness", "body", 6>>,
                     <<"Quantum Edge", "weapon", 6>>,
                     <<"Phasewalkers", "legs", 6>>,
                     <<"Singularity Core", "trinket", 6>> >>]

RARITY_WEIGHTS == << <<"Common", 70>>, <<"Uncommon", 23>>, <<"Rare", 7>> >>

\* The (rarity, template) pairs random.choices / random.choice can return:
\* every rarity of positive weight, every template of that rarity.
PoolDraws ==
    {<<RARITY_WEIGHTS[r][1], ITEM_POOL[RARITY_WEIGHTS[r][1]][k]>> :
        r \in {x \in 1..Len(RARITY_WEIGHTS) : RARITY_WEIGHTS[x][2] > 0},
        k \in 1..5}

\* The draws the model explores: a Common head item and a Rare weapon.
RolledLoot ==
    {d \in PoolDraws :
        d[2][1] \in {"Rusty Visor", "Quantum Edge"}}

\* roll_chest: (rarity, name, slot, power, tokens)
roll_chest ==
    {<<d[1], d[2][1], d[2][2], d[2][3], t>> : d \in RolledLoot, t \in TokenRolls}

----------------------------------------------------------------------------
(* Telegram users: id, username (may be missing), first_name.              *)

UserNames  == <<"ann", "", "cat", "dan", "eve", "fay", "gus", "hal">>
FirstNames == <<"Ann", "Bob", "Cat", "Dan", "Eve", "Fay", "Gus", "Hal">>

TgUser(i) == [id |-> i, username |-> UserNames[i], first_name |-> FirstNames[i]]

Users == {TgUser(i) : i \in 1..NumUsers}

TableUsers == {TgUser(i) : i \in 1..NumTableUsers}

FullTableUsers == {TgUser(i) : i \in 1..NumFullTableUsers}

\* user.username or user.first_name
DisplayName(user) ==
    IF user.username # "" THEN user.username ELSE user.first_name

\* str(user.id): the key of the player store
Str(n) == ToString(n)

----------------------------------------------------------------------------
(* Command arguments (context.args).                                       *)

ArgText == [kind |-> "text", val |-> 0]

ArgInt(n) == [kind |-> "int", val |-> n]

\* int(arg) raises ValueError on a text argument
IsNumber(a) == a.kind = "int"

----------------------------------------------------------------------------
(* Persistence.  load_json of a missing file returns the default, so the   *)
(* documents start as the defaults.                                        *)

save_json(d, file, data) == [d EXCEPT ![file] = data]

----------------------------------------------------------------------------
(* Player model.                                                           *)

NewProfile(user) ==
    [username |-> DisplayName(user),
     tokens   |-> 0,
     chests   |-> 0,
     items    |-> <<>>,
     equipped |-> [s \in SlotSet |-> None]]

\* an ensure_player that writes a new profile whether or not one exists
ensure_player_overwriting(ps, user) ==
    (Str(user.id) :> NewProfile(user)) @@ ps

\* ensure_player: the player store after the call
ensure_player(ps, user) ==
    LET uid == Str(user.id) IN
    IF uid \notin DOMAIN ps
    THEN ps @@ (uid :> NewProfile(user))
    ELSE [ps EXCEPT ![uid].username = DisplayName(user)]

\* get_power: the power of every item whose id is an equipped id
RECURSIVE SumPower(_, _)
SumPower(items, ids) ==
    IF items = <<>> THEN 0
    ELSE (IF Head(items).id \in ids THEN Head(items).power ELSE 0)
         + SumPower(Tail(items), ids)

get_power(ps, uid) ==
    LET p == ps[uid]
        equipped_ids == {p.equipped[s] : s \in SlotSet} \ {None}
    IN  SumPower(p.items, equipped_ids)

----------------------------------------------------------------------------
(* Items and chests.                                                       *)

MaxOf(S) == CHOOSE m \in S : \A x \in S : x <= m

\* new_item_id: one more than the largest id now in the player's items
new_item_id(ps, uid) ==
    LET existing == {ps[uid].items[k].id : k \in 1..Len(ps[uid].items)}
    IN  IF existing # {} THEN MaxOf(existing) + 1 ELSE 1

Last(list) == list[Len(list)]

\* list.pop(idx), idx 0-based and in range: the list without that element
Pop(list, idx) ==
    [k \in 1..(Len(list) - 1) |-> IF k <= idx THEN list[k] ELSE list[k + 1]]

\* the bounds check of /equip, /sell and /buy
InvalidIndex(idx, list) == idx < 0 \/ idx >= Len(list)

\* items in the inventories and on the market
TotalItems ==
    LET RECURSIVE Count(_)
        Count(keys) ==
            IF keys = {} THEN 0
            ELSE LET k == CHOOSE x \in keys : TRUE
                 IN  Len(players[k].items) + Count(keys \ {k})
    IN  Count(DOMAIN players) + Len(market)

----------------------------------------------------------------------------
(* Marketplace fee.                                                        *)

\* fee_map.get(rarity, 0.02), in percent
fee_rate(rarity) ==
    CASE rarity = "Common"   -> 2
      [] rarity = "Uncommon" -> 4
      [] rarity = "Rare"     -> 6
      [] OTHER               -> 2

\* int(price * fee_rate): int() drops the fraction, towards zero.  The
\* double product price * 0.02 (0.04, 0.06) has the integer part of the exact
\* product for every |price| <= 200000.
Fee(price, rarity) ==
    LET x == price * fee_rate(rarity)
    IN  IF x >= 0 THEN x \div 100 ELSE -((-x) \div 100)

----------------------------------------------------------------------------
(* The state after load_json at start-up with no files on disk.            *)

Init ==
    /\ players = << >>
    /\ market = << >>
    /\ tournament = [players |-> << >>]
    /\ disk = [players |-> << >>, market |-> << >>,
               tournament |-> [players |-> << >>]]
    /\ trades = 0
    /\ issued = {}

----------------------------------------------------------------------------
(* /start, /join, /winner.                                                 *)

start(user) ==
    LET ps == ensure_player(players, user) IN
    /\ players' = ps
    /\ disk' = save_json(disk, "players", ps)
    /\ UNCHANGED <<market, tournament, trades, issued>>

\* the table after tournament["players"].append(uid)
Seated(table, uid) == [table EXCEPT !.players = Append(@, uid)]

\* a membership test that looks at the last entry of the table only
InTableLastOnly(table, uid) ==
    table.players # << >> /\ Last(table.players) = uid

\* uid in tournament["players"]
InTable(table, uid) == \E k \in 1..Len(table.players) : table.players[k] = uid

join_reply(table, user) ==
    IF InTable(table, user.id) THEN <<"already_in_table">>
    ELSE IF Len(Seated(table, user.id).players) = 5
         THEN <<"joined", "table_full">>
         ELSE <<"joined">>

join(user) ==
    LET ps  == ensure_player(players, user)
        uid == user.id
    IN
    /\ players' = ps
    /\ UNCHANGED <<market, trades, issued>>
    /\ \/ /\ join_reply(tournament, user) = <<"already_in_table">>
          /\ UNCHANGED <<tournament, disk>>
       \/ /\ join_reply(tournament, user) # <<"already_in_table">>
          /\ tournament' = Seated(tournament, uid)
          /\ disk' = save_json(disk, "tournament", tournament')

\* args[0].replace("@", ""): the argument is a name, with or without "@"
StripAt(arg) == arg.name

\* the first id of the table whose stored username is the target, or None
RECURSIVE FindWinner(_, _, _)
FindWinner(ps, ids, target) ==
    IF ids = <<>> THEN None
    ELSE IF Str(Head(ids)) \in DOMAIN ps /\ ps[Str(Head(ids))].username = target
         THEN Head(ids)
         ELSE FindWinner(ps, Tail(ids), target)

\* players[uid]["chests"] += n
AddChests(ps, uid, n) == [ps EXCEPT ![uid].chests = @ + n]

\* the loop "for uid in tournament['players']": one chest each.  A table id
\* with no profile raises KeyError there: the loop stops, raised is TRUE.
RECURSIVE ChestLoop(_, _, _)
ChestLoop(ps, ids, user) ==
    IF ids = <<>> THEN [ps |-> ps, raised |-> FALSE]
    ELSE LET ps1 == ensure_player(ps, user) IN
         IF Str(Head(ids)) \notin DOMAIN ps1
         THEN [ps |-> ps1, raised |-> TRUE]
         ELSE ChestLoop(AddChests(ps1, Str(Head(ids)), 1), Tail(ids), user)

\* a /winner that forgets the winner's extra chest
WinnerBonusForgotten(ps, winner_id) == ps

\* the extra chest of the winner
WinnerBonus(ps, winner_id) == AddChests(ps, Str(winner_id), 1)

\* tournament["players"] = []
ResetTable(table) == [table EXCEPT !.players = << >>]

\* chests not yet opened, over all players
RECURSIVE SumChests(_, _)
SumChests(ps, keys) ==
    IF keys = {} THEN 0
    ELSE LET k == CHOOSE x \in keys : TRUE
         IN  ps[k].chests + SumChests(ps, keys \ {k})

\* a /winner that does not look at who sent it
winner_reply_unchecked(ps, table, user, args) ==
    IF table.players = << >> THEN <<"no_active_table">>
    ELSE IF args = << >> THEN <<"usage_winner">>
    ELSE IF FindWinner(ps, table.players, StripAt(args[1])) = None
         THEN <<"not_in_table">>
    ELSE IF ChestLoop(ps, table.players, user).raised THEN << >>
    ELSE <<"winner">>

\* << >> stands for the handler ending in KeyError: nothing is replied
winner_reply(ps, table, user, args) ==
    IF user.id # ADMIN_ID THEN <<"not_authorized">>
    ELSE IF table.players = << >> THEN <<"no_active_table">>
    ELSE IF args = << >> THEN <<"usage_winner">>
    ELSE IF FindWinner(ps, table.players, StripAt(args[1])) = None
         THEN <<"not_in_table">>
    ELSE IF ChestLoop(ps, table.players, user).raised THEN << >>
    ELSE <<"winner">>

\* cap: the command is not taken when it would leave more unopened chests
winner(user, args, cap) ==
    LET r == winner_reply(players, tournament, user, args) IN
    /\ UNCHANGED <<market, trades, issued>>
    /\ \/ /\ r \notin {<<"winner">>, << >>}
          /\ UNCHANGED <<players, tournament, disk>>
       \/ /\ r \in {<<"winner">>, << >>}
          /\ LET winner_id == FindWinner(players, tournament.players, StripAt(args[1]))
                 loop == ChestLoop(players, tournament.players, user)
                 ps   == WinnerBonus(loop.ps, winner_id)
             IN  IF loop.raised
                 THEN /\ SumChests(loop.ps, DOMAIN loop.ps) <= cap
                      /\ players' = loop.ps
                      /\ UNCHANGED <<tournament, disk>>
                 ELSE /\ SumChests(ps, DOMAIN ps) <= cap
                      /\ players' = ps
                      /\ tournament' = ResetTable(tournament)
                      /\ disk' = save_json(save_json(disk, "players", ps),
                                           "tournament", tournament')

----------------------------------------------------------------------------
(* /open_chest, /inventory, /stats, /equip, /unequip.                      *)

\* the item a chest yields
NewItem(ps, uid, roll) ==
    [id     |-> new_item_id(ps, uid),
     name   |-> roll[2],
     slot   |-> roll[3],
     rarity |-> roll[1],
     power  |-> roll[4]]

\* a chest check that lets a player with no chest through
NoChestsBelowZero(p) == p.chests < 0

\* if p["chests"] <= 0
NoChests(p) == p.chests <= 0

\* p["chests"] -= 1
ChestTaken(p) == [p EXCEPT !.chests = @ - 1]

\* the profile after a chest is opened with the given roll
Opened(ps, uid, roll) ==
    LET p1  == ChestTaken(ps[uid])
        ps1 == [ps EXCEPT ![uid] = p1]
    IN  [p1 EXCEPT !.items = Append(@, NewItem(ps1, uid, roll)),
                   !.tokens = @ + roll[5]]

open_chest_reply(ps, user) ==
    IF NoChests(ensure_player(ps, user)[Str(user.id)])
    THEN <<"no_chests">> ELSE <<"chest_opened">>

open_chest(user) ==
    LET ps  == ensure_player(players, user)
        uid == Str(user.id)
    IN
    /\ UNCHANGED <<market, tournament, trades>>
    /\ \/ /\ open_chest_reply(players, user) = <<"no_chests">>
          /\ players' = ps
          /\ UNCHANGED <<disk, issued>>
       \/ /\ open_chest_reply(players, user) = <<"chest_opened">>
          /\ TotalItems < MaxItems
          /\ \E roll \in roll_chest :
                /\ players' = [ps EXCEPT ![uid] = Opened(ps, uid, roll)]
                /\ disk' = save_json(disk, "players", players')
                /\ issued' = issued \cup
                     {<<uid, Last(players'[uid].items).id,
                        Cardinality({e \in issued : e[1] = uid}) + 1>>}

\* the inventory text shows get_power(uid)
inventory(user) ==
    /\ players' = ensure_player(players, user)
    /\ UNCHANGED <<market, tournament, disk, trades, issued>>

\* the build text shows get_power(uid)
stats(user) ==
    /\ players' = ensure_player(players, user)
    /\ UNCHANGED <<market, tournament, disk, trades, issued>>

\* an equip that puts the item's id in every slot
EquippedInEverySlot(p, item) ==
    [p EXCEPT !.equipped = [s \in SlotSet |-> item.id]]

\* p["equipped"][slot] = item["id"]
Equipped(p, item) == [p EXCEPT !.equipped[item.slot] = item.id]

equip_reply(ps, user, args) ==
    LET p == ensure_player(ps, user)[Str(user.id)] IN
    IF args = << >> THEN <<"usage_equip">>
    ELSE IF ~IsNumber(args[1]) THEN <<"item_number_must_be_a_number">>
    ELSE IF InvalidIndex(args[1].val - 1, p.items) THEN <<"invalid_item_number">>
    ELSE <<"equipped">>

equip(user, args) ==
    LET ps  == ensure_player(players, user)
        uid == Str(user.id)
        p   == ps[uid]
    IN
    /\ UNCHANGED <<market, tournament, trades, issued>>
    /\ \/ /\ equip_reply(players, user, args) # <<"equipped">>
          /\ players' = ps
          /\ disk' = disk
       \/ /\ equip_reply(players, user, args) = <<"equipped">>
          /\ LET idx  == args[1].val - 1
                 item == p.items[idx + 1]
             IN  players' = [ps EXCEPT ![uid] = Equipped(p, item)]
          /\ disk' = save_json(disk, "players", players')

\* str.lower() on the slot names the model passes
Lower(s) ==
    CASE s = "Head"   -> "head"
      [] s = "WEAPON" -> "weapon"
      [] OTHER        -> s

\* p["equipped"][slot] = None
Unequipped(p, slot) == [p EXCEPT !.equipped[slot] = None]

unequip_reply(ps, user, args) ==
    LET p == ensure_player(ps, user)[Str(user.id)] IN
    IF args = << >> THEN <<"usage_unequip">>
    ELSE IF Lower(args[1]) \notin SlotSet THEN <<"invalid_slot">>
    ELSE IF p.equipped[Lower(args[1])] = None THEN <<"no_item_equipped">>
    ELSE <<"unequipped">>

unequip(user, args) ==
    LET ps  == ensure_player(players, user)
        uid == Str(user.id)
        p   == ps[uid]
    IN
    /\ UNCHANGED <<market, tournament, trades, issued>>
    /\ \/ /\ unequip_reply(players, user, args) # <<"unequipped">>
          /\ players' = ps
          /\ disk' = disk
       \/ /\ unequip_reply(players, user, args) = <<"unequipped">>
          /\ players' = [ps EXCEPT ![uid] = Unequipped(p, Lower(args[1]))]
          /\ disk' = save_json(disk, "players", players')

----------------------------------------------------------------------------
(* Marketplace: /market, /sell, /buy.                                      *)

market_cmd == UNCHANGED vars

\* the listing /sell appends
Listing(user, item, price) ==
    [seller_id |-> user.id, item |-> item, price |-> price]

\* a /sell that reads the item without removing it
SoldKeepingItem(p, idx) == p

\* the seller's profile after item = p["items"].pop(idx)
Sold(p, idx) == [p EXCEPT !.items = Pop(@, idx)]

sell_reply(ps, user, args) ==
    LET p == ensure_player(ps, user)[Str(user.id)] IN
    IF Len(args) < 2 THEN <<"usage_sell">>
    ELSE IF ~(IsNumber(args[1]) /\ IsNumber(args[2]))
         THEN <<"item_number_and_price_must_be_numbers">>
    ELSE IF InvalidIndex(args[1].val - 1, p.items) THEN <<"invalid_item_number">>
    ELSE <<"item_listed">>

sell(user, args) ==
    LET ps  == ensure_player(players, user)
        uid == Str(user.id)
        p   == ps[uid]
    IN
    /\ UNCHANGED <<tournament, trades, issued>>
    /\ \/ /\ sell_reply(players, user, args) # <<"item_listed">>
          /\ players' = ps
          /\ UNCHANGED <<market, disk>>
       \/ /\ sell_reply(players, user, args) = <<"item_listed">>
          /\ LET idx   == args[1].val - 1
                 price == args[2].val
                 item  == p.items[idx + 1]
             IN  /\ players' = [ps EXCEPT ![uid] = Sold(p, idx)]
                 /\ market' = Append(market, Listing(user, item, price))
          /\ disk' = save_json(save_json(disk, "market", market'),
                               "players", players')

\* if p["tokens"] < price
CannotPay(p, price) == p.tokens < price

\* seller_take = price - fee
SellerTake(price, rarity) == price - Fee(price, rarity)

\* the player store after the token transfer and the item hand-over
Settled(ps, user, listing) ==
    LET uid       == Str(user.id)
        price     == listing.price
        item      == listing.item
        ps1       == [ps EXCEPT ![uid].tokens = @ - price]
        seller_id == Str(listing.seller_id)
        ps2       == ensure_player(ps1, user)
        ps3       == IF seller_id \in DOMAIN ps2
                     THEN [ps2 EXCEPT ![seller_id].tokens =
                                          @ + SellerTake(price, item.rarity)]
                     ELSE ps2
    IN  [ps3 EXCEPT ![uid].items = Append(@, item)]

buy_reply(ps, mkt, user, args) ==
    LET p == ensure_player(ps, user)[Str(user.id)] IN
    IF args = << >> THEN <<"usage_buy">>
    ELSE IF ~IsNumber(args[1]) THEN <<"listing_number_must_be_a_number">>
    ELSE IF InvalidIndex(args[1].val - 1, mkt) THEN <<"invalid_listing">>
    ELSE IF CannotPay(p, mkt[args[1].val].price) THEN <<"not_enough_tokens">>
    ELSE <<"bought">>

buy(user, args) ==
    LET ps  == ensure_player(players, user)
        uid == Str(user.id)
        p   == ps[uid]
    IN
    /\ UNCHANGED <<tournament, issued>>
    /\ \/ /\ buy_reply(players, market, user, args) # <<"bought">>
          /\ players' = ps
          /\ UNCHANGED <<market, disk, trades>>
       \/ /\ buy_reply(players, market, user, args) = <<"bought">>
          /\ trades < MaxTrades
          /\ trades' = trades + 1
          /\ LET idx     == args[1].val - 1
                 listing == market[idx + 1]
             IN  /\ players' = Settled(ps, user, listing)
                 /\ market' = Pop(market, idx)
          /\ disk' = save_json(save_json(disk, "market", market'),
                               "players", players')

promo(user) ==
    /\ players' = ensure_player(players, user)
    /\ UNCHANGED <<market, tournament, disk, trades, issued>>

----------------------------------------------------------------------------
(* The process stops and is started again: the module-level load_json      *)
(* calls read the three documents as save_json last wrote them.  The       *)
(* documents hold string keys, integers, strings, lists and null only, so  *)
(* json.load gives back what json.dump was given.                          *)

load_json(d, file) == d[file]

restart ==
    /\ players' = load_json(disk, "players")
    /\ market' = load_json(disk, "market")
    /\ tournament' = load_json(disk, "tournament")
    /\ UNCHANGED <<disk, trades, issued>>

\* the stores after a start-up that reads the documents d
Reloaded(d) ==
    /\ players' = load_json(d, "players")
    /\ market' = load_json(d, "market")
    /\ tournament' = load_json(d, "tournament")

\* /sell stops between save_json(MARKET_FILE, market) and
\* save_json(PLAYER_FILE, players), and the process is started again.  (Not
\* taken once MaxItems items exist.)
sell_stopped(user, args) ==
    LET ps  == ensure_player(players, user)
        uid == Str(user.id)
        p   == ps[uid]
    IN
    /\ sell_reply(players, user, args) = <<"item_listed">>
    /\ TotalItems < MaxItems
    /\ LET idx   == args[1].val - 1
           price == args[2].val
           item  == p.items[idx + 1]
           d     == save_json(disk, "market",
                              Append(market, Listing(user, item, price)))
       IN  /\ disk' = d
           /\ Reloaded(d)
    /\ UNCHANGED <<trades, issued>>

\* /buy stops between its two save_json calls, and the process is started
\* again
buy_stopped(user, args) ==
    /\ buy_reply(players, market, user, args) = <<"bought">>
    /\ LET idx == args[1].val - 1
           d   == save_json(disk, "market", Pop(market, idx))
       IN  /\ disk' = d
           /\ Reloaded(d)
    /\ UNCHANGED <<trades, issued>>

----------------------------------------------------------------------------
(* The arguments the commands are given in the model.                      *)

\* the names /winner is given: every user's, with and without "@", and one
\* nobody has
WinnerArgs(users) ==
    {<< >>}
    \cup {<<[at |-> a, name |-> n]>> :
            a \in BOOLEAN, n \in {DisplayName(u) : u \in users} \cup {"zed"}}

IndexArgs ==
    {<< >>, <<ArgText>>} \cup {<<ArgInt(n)>> : n \in 0..(MaxItems + 1)}

SlotArgs ==
    {<< >>} \cup {<<s>> : s \in {"head", "weapon", "trinket", "Head", "WEAPON", "ring"}}

SellArgs ==
    {<< >>, <<ArgInt(1)>>, <<ArgText, ArgInt(30)>>, <<ArgInt(1), ArgText>>}
    \cup {<<ArgInt(n), ArgInt(price)>> : n \in 0..(MaxItems + 1), price \in Prices}

----------------------------------------------------------------------------
(* The whole program, from empty documents.                                *)

Next ==
    \/ market_cmd
    \/ \E user \in Users :
        \/ start(user)
        \/ join(user)
        \/ \E args \in WinnerArgs(Users) : winner(user, args, MaxChests)
        \/ open_chest(user)
        \/ inventory(user)
        \/ stats(user)
        \/ \E args \in IndexArgs : equip(user, args)
        \/ \E args \in SlotArgs : unequip(user, args)
        \/ \E args \in SellArgs : sell(user, args)
        \/ \E args \in IndexArgs : buy(user, args)
        \/ promo(user)

Spec == Init /\ [][Next]_vars

----------------------------------------------------------------------------
(* The tournament table alone.                                             *)

NextTable ==
    \E user \in TableUsers :
        \/ start(user)
        \/ join(user)
        \/ \E args \in WinnerArgs(TableUsers) : winner(user, args, MaxChests)

SpecTable == Init /\ [][NextTable]_vars

\* with enough users to fill the table
NextFullTable ==
    \E user \in FullTableUsers :
        \/ join(user)
        \/ \E args \in WinnerArgs(FullTableUsers) :
              winner(user, args, MaxFullTableChests)

SpecFullTable == Init /\ [][NextFullTable]_vars

\* the table, with the process stopped and started again between commands
NextTableRestart ==
    \/ restart
    \/ \E user \in TableUsers :
        \/ start(user)
        \/ join(user)
        \/ \E args \in WinnerArgs(TableUsers) : winner(user, args, MaxChests)

SpecTableRestart == Init /\ [][NextTableRestart]_vars

----------------------------------------------------------------------------
(* The economy after one resolved table: the documents load_json reads at  *)
(* start-up are those /winner saved for a table of users 1 and 2 that      *)
(* user 1 won.                                                             *)

AfterTable ==
    LET ps0 == ensure_player(ensure_player(<< >>, TgUser(1)), TgUser(2))
    IN  WinnerBonus(ChestLoop(ps0, <<1, 2>>, TgUser(ADMIN_ID)).ps, 1)

InitGame ==
    /\ players = AfterTable
    /\ market = << >>
    /\ tournament = [players |-> << >>]
    /\ disk = [players |-> AfterTable, market |-> << >>,
               tournament |-> [players |-> << >>]]
    /\ trades = 0
    /\ issued = {}

NextGame ==
    \/ market_cmd
    \/ \E user \in Users :
        \/ open_chest(user)
        \/ inventory(user)
        \/ stats(user)
        \/ \E args \in IndexArgs : equip(user, args)
        \/ \E args \in SlotArgs : unequip(user, args)
        \/ \E args \in SellArgs : sell(user, args)
        \/ \E args \in IndexArgs : buy(user, args)
        \/ promo(user)

SpecGame == InitGame /\ [][NextGame]_vars

\* the marketplace, with the process stopping inside /sell and /buy
NextCrash ==
    \/ restart
    \/ \E user \in Users :
        \/ open_chest(user)
        \/ \E args \in SellArgs : sell(user, args)
        \/ \E args \in IndexArgs : buy(user, args)
        \/ \E args \in SellArgs : sell_stopped(user, args)
        \/ \E args \in IndexArgs : buy_stopped(user, args)

SpecCrash == InitGame /\ [][NextCrash]_vars

----------------------------------------------------------------------------
(* Properties.                                                             *)

\* "Players: {count}/5", "if count == 5": the size of a table
TableCapacity == 5

Keys == DOMAIN players

ChestsOf(ps, key) == IF key \in DOMAIN ps THEN ps[key].chests ELSE 0

TokensOf(ps, key) == IF key \in DOMAIN ps THEN ps[key].tokens ELSE 0

ItemsOf(ps, key) == IF key \in DOMAIN ps THEN ps[key].items ELSE << >>

Range(seq) == {seq[k] : k \in 1..Len(seq)}

\* how many times an item record occurs in the inventories and the listings
RECURSIVE Occurrences(_, _, _, _)
Occurrences(it, ps, keys, mkt) ==
    IF keys = {}
    THEN Cardinality({k \in 1..Len(mkt) : mkt[k].item = it})
    ELSE LET key == CHOOSE x \in keys : TRUE
         IN  Cardinality({k \in 1..Len(ps[key].items) : ps[key].items[k] = it})
             + Occurrences(it, ps, keys \ {key}, mkt)

ItemsIn(ps, mkt) ==
    UNION {Range(ps[key].items) : key \in DOMAIN ps}
    \cup {mkt[k].item : k \in 1..Len(mkt)}

\* C1: the tournament queue never holds more than 5 identities.
C1_QueueWithinCapacity == Len(tournament.players) <= TableCapacity

\* C2: every non-empty equipment slot of every player holds the id of an
\* item in that player's items.
C2_EquippedItemsOwned ==
    \A key \in Keys : \A s \in SlotSet :
        players[key].equipped[s] # None
        => \E k \in 1..Len(players[key].items) :
              players[key].items[k].id = players[key].equipped[s]

\* C3: items are conserved.  Every step leaves the number of occurrences of
\* every item record, over all inventories and listings, as it was (no item
\* is duplicated, none is lost), but for the one item a chest opening adds.
\* A step that adds a listing (/sell) takes that listing's item, as it is, out
\* of the seller's items; a step that removes a listing (/buy) puts that
\* listing's item, as it is, at the end of one player's items and changes no
\* other inventory.
C3_ItemsConserved ==
    [][ (players' # players \/ market' # market) =>
        LET all == ItemsIn(players, market) \cup ItemsIn(players', market')
            grown == {it \in all :
                        Occurrences(it, players', DOMAIN players', market')
                        # Occurrences(it, players, DOMAIN players, market)}
        IN  /\ \/ grown = {}
               \/ /\ Len(market') = Len(market)
                  /\ \E it \in grown :
                       /\ grown = {it}
                       /\ Occurrences(it, players', DOMAIN players', market')
                          = Occurrences(it, players, DOMAIN players, market) + 1
                       /\ \E key \in DOMAIN players' :
                            /\ ChestsOf(players', key) = ChestsOf(players, key) - 1
                            /\ players'[key].items = Append(ItemsOf(players, key), it)
            /\ Len(market') > Len(market) =>
                 /\ Len(market') = Len(market) + 1
                 /\ SubSeq(market', 1, Len(market)) = market
                 /\ LET key == Str(Last(market').seller_id)
                    IN  \E k \in 1..Len(ItemsOf(players, key)) :
                           /\ players[key].items[k] = Last(market').item
                           /\ players'[key].items = Pop(players[key].items, k - 1)
            /\ Len(market') < Len(market) =>
                 \E k \in 1..Len(market) :
                    /\ market' = Pop(market, k - 1)
                    /\ \E key \in DOMAIN players' :
                         /\ players'[key].items
                            = Append(ItemsOf(players, key), market[k].item)
                         /\ \A other \in DOMAIN players' \ {key} :
                              players'[other].items = ItemsOf(players, other)
      ]_vars

\* C3 witness: user 2 holds an item and has not opened the one chest it
\* started with: the item was listed by user 1 and bought by user 2.
C3_Witness ==
    /\ trades = 1
    /\ players["2"].chests = 1
    /\ Len(players["2"].items) = 1

\* the fee schedule of the marketplace: Common 2%, Uncommon 4%, Rare 6%,
\* 2% for any other rarity
RatePercent(rarity) ==
    IF rarity = "Uncommon" THEN 4 ELSE IF rarity = "Rare" THEN 6 ELSE 2

\* floor(price * rate): \div rounds down
FloorFee(price, rarity) == (price * RatePercent(rarity)) \div 100

\* C4: a step that removes a listing of price P and hands its item to a
\* player other than the seller (a successful /buy) takes exactly P from the
\* buyer and gives the seller exactly P - fee, fee = floor(P * rate(rarity)).
C4_BuySettlesExactly ==
    [][ Len(market') < Len(market) =>
        \A k \in 1..Len(market) :
           market' = Pop(market, k - 1) =>
             LET P      == market[k].price
                 fee    == FloorFee(P, market[k].item.rarity)
                 seller == Str(market[k].seller_id)
             IN  \A buyer \in DOMAIN players' \ {seller} :
                    players'[buyer].items # ItemsOf(players, buyer) =>
                      /\ players'[buyer].tokens = TokensOf(players, buyer) - P
                      /\ players'[seller].tokens = players[seller].tokens + (P - fee)
                      /\ (players'[seller].tokens - players[seller].tokens) + fee = P
      ]_vars

\* C5: every token balance is non-negative.
C5_BalancesNonNegative == \A key \in Keys : players[key].tokens >= 0

\* C6: a /sell with a price that is zero or negative creates no listing and
\* leaves the item with the seller: a step never adds a listing whose price
\* is not positive, and every active listing has a positive price.
C6_ListingsPricedPositive ==
    [][ /\ Len(market') > Len(market) => Last(market').price > 0
        /\ \A k \in 1..Len(market') : market'[k].price > 0
      ]_vars

\* C7: a successful /winner with N queued players, naming a queued player,
\* gives every queued player one chest and the winner one more, N + 1 chests
\* in all and none to anyone else, and leaves the queue empty.
C7_ResolveDistributesChests ==
    [][ (players' # players \/ tournament' # tournament) =>
        \A user \in TableUsers : \A args \in WinnerArgs(TableUsers) :
          (/\ winner_reply(players, tournament, user, args) = <<"winner">>
           /\ winner(user, args, MaxChests))
          => LET queue  == tournament.players
                 queued == {Str(id) : id \in Range(queue)}
             IN  /\ tournament'.players = << >>
                 /\ \E w \in queued :
                      /\ players[w].username = args[1].name
                      /\ \A key \in DOMAIN players' :
                           ChestsOf(players', key)
                           = ChestsOf(players, key)
                             + (IF key \in queued THEN 1 ELSE 0)
                             + (IF key = w THEN 1 ELSE 0)
                 /\ SumChests(players', DOMAIN players')
                    = SumChests(players, DOMAIN players) + Len(queue) + 1
      ]_vars

\* C7 witness: a table of three was resolved: the winner holds two chests,
\* the two others one each, and the queue is empty.
C7_Witness ==
    /\ tournament.players = << >>
    /\ DOMAIN players = {"1", "2", "3"}
    /\ \E w \in DOMAIN players :
          /\ players[w].chests = 2
          /\ \A key \in DOMAIN players \ {w} : players[key].chests = 1

\* C8: /open_chest with a chest takes exactly one chest and adds exactly one
\* item; with no chest it replies that there is none and leaves the chest
\* count, the items and the tokens as they were; no chest count is negative.
C8_OpenChestCounts ==
    [][ /\ \A key \in DOMAIN players' : players'[key].chests >= 0
        /\ \A user \in Users :
             ChestsOf(players', Str(user.id)) = 0
             => open_chest_reply(players', user) = <<"no_chests">>
        /\ players' # players =>
             \A user \in Users :
               open_chest(user) =>
                 LET key == Str(user.id) IN
                 IF ChestsOf(players, key) = 0
                 THEN /\ open_chest_reply(players, user) = <<"no_chests">>
                      /\ players'[key].chests = 0
                      /\ players'[key].items = ItemsOf(players, key)
                      /\ players'[key].tokens = TokensOf(players, key)
                 ELSE /\ open_chest_reply(players, user) = <<"chest_opened">>
                      /\ players'[key].chests = players[key].chests - 1
                      /\ Len(players'[key].items) = Len(players[key].items) + 1
      ]_vars

\* C8 witness: user 2 opened its only chest: it holds the item and no chest,
\* the state in which a further /open_chest is refused.
C8_Witness ==
    /\ players["2"].chests = 0
    /\ Len(players["2"].items) = 1
    /\ trades = 0

\* the items the occupied slots refer to: for each equipped id, the first
\* item of that id
ReferencedItems(p) ==
    {k \in 1..Len(p.items) :
        /\ \E s \in SlotSet : p.equipped[s] # None /\ p.equipped[s] = p.items[k].id
        /\ \A j \in 1..(k - 1) : p.items[j].id # p.items[k].id}

RECURSIVE PowerOver(_, _)
PowerOver(items, ks) ==
    IF ks = {} THEN 0
    ELSE LET k == CHOOSE x \in ks : TRUE
         IN  items[k].power + PowerOver(items, ks \ {k})

\* C9: total_power is the sum of power over exactly the items the occupied
\* equipment slots refer to; no other item contributes.
C9_PowerOfEquippedItems ==
    \A key \in Keys :
        get_power(players, key)
        = PowerOver(players[key].items, ReferencedItems(players[key]))

\* C10: the ids /open_chest gives a player increase strictly, and no two
\* items of one player's collection share an id.
C10_ItemIdsUniqueIncreasing ==
    /\ \A a \in issued : \A b \in issued :
          (a[1] = b[1] /\ a[3] < b[3]) => a[2] < b[2]
    /\ \A key \in Keys :
          \A j \in 1..Len(players[key].items) : \A k \in 1..Len(players[key].items) :
             j # k => players[key].items[j].id # players[key].items[k].id

\* the player store is as it was, but for the caller's profile, created empty
\* or with its display name refreshed
OnlyCallerTouched(ps, ps2, user) == ps2 \in {ps, ensure_player(ps, user)}

\* the stores are as they were, but for the caller's own profile
NothingApplied(user) ==
    /\ OnlyCallerTouched(players, players', user)
    /\ market' = market
    /\ tournament' = tournament

\* C11: a mutating command that does not succeed (an error is replied, or the
\* handler ends in an exception) has applied no effect: token balances, chest
\* counts, items, equipment, the listings and the queue are as they were,
\* apart from the caller's profile being created empty or its display name
\* refreshed.
C11_ErrorsChangeNothing ==
    [][ (players' # players \/ market' # market \/ tournament' # tournament) =>
        \A user \in TableUsers :
          /\ (join_reply(tournament, user) = <<"already_in_table">> /\ join(user))
             => NothingApplied(user)
          /\ \A args \in WinnerArgs(TableUsers) :
               (/\ winner_reply(players, tournament, user, args) # <<"winner">>
                /\ winner(user, args, MaxChests))
               => NothingApplied(user)
          /\ (open_chest_reply(players, user) = <<"no_chests">> /\ open_chest(user))
             => NothingApplied(user)
          /\ \A args \in IndexArgs :
               /\ (equip_reply(players, user, args) # <<"equipped">> /\ equip(user, args))
                  => NothingApplied(user)
               /\ (buy_reply(players, market, user, args) # <<"bought">> /\ buy(user, args))
                  => NothingApplied(user)
          /\ \A args \in SlotArgs :
               (unequip_reply(players, user, args) # <<"unequipped">> /\ unequip(user, args))
               => NothingApplied(user)
          /\ \A args \in SellArgs :
               (sell_reply(players, user, args) # <<"item_listed">> /\ sell(user, args))
               => NothingApplied(user)
      ]_vars

\* no entry of the sequence occurs twice
NoDuplicates(seq) ==
    \A j \in 1..Len(seq) : \A k \in 1..Len(seq) : j # k => seq[j] # seq[k]

\* C12: no identity is twice in the queue.  A /join of an identity that is in
\* the queue replies that it is already there and leaves the queue as it
\* was; any other /join puts the identity at the end of the queue, the
\* earlier entries staying in their order.
C12_JoinKeepsQueueDistinct ==
    [][ /\ NoDuplicates(tournament.players)
        /\ NoDuplicates(tournament'.players)
        /\ \A user \in TableUsers :
             /\ user.id \in Range(tournament.players)
                => join_reply(tournament, user) = <<"already_in_table">>
             /\ join(user) =>
                  IF user.id \in Range(tournament.players)
                  THEN tournament' = tournament
                  ELSE /\ join_reply(tournament, user) # <<"already_in_table">>
                       /\ tournament'.players = Append(tournament.players, user.id)
      ]_vars

\* C12 witness: three identities joined, user 2 first and the administrator
\* last; the queue holds them once each, in the order they came.
C12_Witness == tournament.players = <<2, 3, 1>>

\* /buy <n> by the user succeeds on the given stores
BuySucceeds(ps, mkt, user, n) ==
    buy_reply(ps, mkt, user, <<ArgInt(n)>>) = <<"bought">>

\* the player store after the user's successful /buy <n>
PlayersAfterBuy(ps, mkt, user, n) ==
    Settled(ensure_player(ps, user), user, mkt[n])

\* C13: two buyers who both hold the price send /buy for the same listing
\* number, having seen the same marketplace: whichever command is processed
\* first, the two do not both succeed.  (Stated for marketplaces whose
\* listings all have a positive price.)
C13_OneBuyPerListingNumber ==
    \A first \in Users : \A second \in Users \ {first} :
      \A n \in 1..Len(market) :
        (/\ \A k \in 1..Len(market) : market[k].price > 0
         /\ TokensOf(players, Str(first.id)) >= market[n].price
         /\ TokensOf(players, Str(second.id)) >= market[n].price)
        => ~(/\ BuySucceeds(players, market, first, n)
             /\ BuySucceeds(PlayersAfterBuy(players, market, first, n),
                            Pop(market, n - 1), second, n))

\* the stores hold every item record as often as before the step, and no
\* token balance has changed unless a player has received an item
ReloadedWhole ==
    /\ \A it \in ItemsIn(players, market) \cup ItemsIn(players', market') :
          Occurrences(it, players', DOMAIN players', market')
          = Occurrences(it, players, DOMAIN players, market)
    /\ (\E key \in DOMAIN players' :
           TokensOf(players', key) # TokensOf(players, key))
       => \E key \in DOMAIN players' :
             Len(players'[key].items) = Len(ItemsOf(players, key)) + 1

\* C14: when the process stops inside /sell or /buy, between the two
\* save_json calls, and is started again, the stores it reads back hold no
\* item twice (in a player's items and in a listing), have lost no item, and
\* show no tokens transferred without the item.  (Stated for listings of
\* positive price.)
C14_StoppedCommandsAtomic ==
    [][ (/\ players' # players \/ market' # market
         /\ \A k \in 1..Len(market) : market[k].price > 0
         /\ \A k \in 1..Len(market') : market'[k].price > 0) =>
        \A user \in Users :
          /\ \A args \in SellArgs : sell_stopped(user, args) => ReloadedWhole
          /\ \A args \in IndexArgs : buy_stopped(user, args) => ReloadedWhole
      ]_vars

\* C15: between any two commands the saved player, marketplace and queue
\* documents equal the stores in memory, and every identity in the saved
\* queue has a profile in the saved player store.
C15_SavedEqualsMemory ==
    /\ load_json(disk, "players") = players
    /\ load_json(disk, "market") = market
    /\ load_json(disk, "tournament") = tournament
    /\ \A id \in Range(load_json(disk, "tournament").players) :
          Str(id) \in DOMAIN load_json(disk, "players")

\* the Telegram users ensure_player is called for: ids with and without a
\* profile, with the names they may have come to have
Callers ==
    {[id |-> i, username |-> u, first_name |-> f] :
        i \in 1..NumTableUsers, u \in {"", "ann", "neo"}, f \in {"Bob", "Neo"}}

\* C16: ensure_player is idempotent.  For an identity with no profile it
\* adds a profile with 0 tokens, 0 chests, no items and the five slots empty;
\* for an identity with a profile it changes nothing but the display name:
\* tokens, chests, items and equipment are as they were, and so are the other
\* profiles.  A second call changes nothing more.
C16_EnsurePlayerIdempotent ==
    \A user \in Callers :
      LET uid   == Str(user.id)
          name  == IF user.username # "" THEN user.username ELSE user.first_name
          once  == ensure_player(players, user)
          twice == ensure_player(once, user)
      IN  /\ twice = once
          /\ DOMAIN once = DOMAIN players \cup {uid}
          /\ \A key \in DOMAIN players \ {uid} : once[key] = players[key]
          /\ once[uid].username = name
          /\ IF uid \in DOMAIN players
             THEN /\ once[uid].tokens = players[uid].tokens
                  /\ once[uid].chests = players[uid].chests
                  /\ once[uid].items = players[uid].items
                  /\ once[uid].equipped = players[uid].equipped
             ELSE /\ once[uid].tokens = 0
                  /\ once[uid].chests = 0
                  /\ once[uid].items = << >>
                  /\ DOMAIN once[uid].equipped
                     = {"head", "body", "weapon", "legs", "trinket"}
                  /\ \A s \in DOMAIN once[uid].equipped :
                        once[uid].equipped[s] = None

\* C16 witness: the administrator's profile holds tokens, a chest, an item
\* and an equipped slot, after the commands that called ensure_player for it.
C16_Witness ==
    /\ players["1"].tokens > 0
    /\ players["1"].chests > 0
    /\ Len(players["1"].items) > 0
    /\ \E s \in SlotSet : players["1"].equipped[s] # None

\* C17: /winner distributes chests and empties the queue only when the queue
\* is full: a step that empties a queue, or gives a chest, starts from a queue
\* of 5, never from one of 1 to 4.
C17_ResolvesOnlyFullTable ==
    [][ (\/ (tournament.players # << >> /\ tournament'.players = << >>)
         \/ \E key \in DOMAIN players' :
               ChestsOf(players', key) > ChestsOf(players, key))
        => Len(tournament.players) = TableCapacity
      ]_vars

\* C18: /winner is for the administrator only.  Sent by anyone else it is
\* refused as not authorized and changes no chest count, leaves the queue as
\* it was and creates or alters no profile; a chest is given, and a queue
\* emptied, only by a /winner the administrator sent.
C18_ResolveByAdminOnly ==
    [][ /\ \A user \in TableUsers : \A args \in WinnerArgs(TableUsers) :
             user.id # ADMIN_ID =>
               /\ winner_reply(players, tournament, user, args)
                  = <<"not_authorized">>
               /\ winner(user, args, MaxChests) =>
                    /\ players' = players
                    /\ tournament' = tournament
                    /\ disk' = disk
        /\ (\/ (tournament.players # << >> /\ tournament'.players = << >>)
            \/ \E key \in DOMAIN players' :
                  ChestsOf(players', key) # ChestsOf(players, key))
           => \E args \in WinnerArgs(TableUsers) :
                 winner(TgUser(ADMIN_ID), args, MaxChests)
      ]_vars

\* C18 witness: users 2 and 3 are queued and hold no chest: a /winner that
\* one of them sends, naming a queued player, is refused for its sender
\* alone.
C18_Witness ==
    /\ tournament.players = <<2, 3>>
    /\ \A key \in Keys : players[key].chests = 0
    /\ \E user \in TableUsers : \E args \in WinnerArgs(TableUsers) :
          /\ user.id # ADMIN_ID
          /\ winner_reply(players, tournament, user, args) = <<"not_authorized">>
          /\ winner_reply_unchecked(players, tournament, user, args) = <<"winner">>

\* C19: a successful /equip <n> puts the id of the player's n-th item in the
\* slot of that item and changes nothing else: the player's other four
\* slots, items (the item that was in the slot before included), tokens and
\* chests, the other players, the listings and the queue are as they were.
\* A number outside the items is refused as invalid and changes nothing.
C19_EquipSetsOneSlot ==
    [][ \A user \in Users : \A args \in IndexArgs :
          LET key == Str(user.id)
              n   == IF args # << >> /\ IsNumber(args[1]) THEN args[1].val ELSE 0
          IN
          /\ (args # << >> /\ IsNumber(args[1])
              /\ (n < 1 \/ n > Len(ItemsOf(players, key))))
             => equip_reply(players, user, args) = <<"invalid_item_number">>
          /\ (players' # players /\ equip(user, args)) =>
               IF equip_reply(players, user, args) = <<"equipped">>
               THEN LET item == players[key].items[n] IN
                    /\ n \in 1..Len(players[key].items)
                    /\ players'[key].equipped[item.slot] = item.id
                    /\ \A s \in SlotSet \ {item.slot} :
                          players'[key].equipped[s] = players[key].equipped[s]
                    /\ players'[key].items = players[key].items
                    /\ players'[key].tokens = players[key].tokens
                    /\ players'[key].chests = players[key].chests
                    /\ DOMAIN players' = DOMAIN players
                    /\ \A other \in DOMAIN players \ {key} :
                          players'[other] = players[other]
                    /\ market' = market
                    /\ tournament' = tournament
               ELSE NothingApplied(user)
      ]_vars

\* C19 witness: a player holds two items of one slot and has the second
\* equipped, the first still among its items.
C19_Witness ==
    \E key \in Keys :
      /\ Len(players[key].items) = 2
      /\ players[key].items[1].slot = players[key].items[2].slot
      /\ players[key].items[1].id # players[key].items[2].id
      /\ players[key].equipped[players[key].items[2].slot]
         = players[key].items[2].id

\* C20: every item an occupied slot s of a player resolves to (an item of
\* that id in the player's items) is an item of slot s.
C20_EquippedItemFitsSlot ==
    \A key \in Keys : \A s \in SlotSet :
        players[key].equipped[s] # None
        => \A k \in 1..Len(players[key].items) :
              players[key].items[k].id = players[key].equipped[s]
              => players[key].items[k].slot = s

====
